---------------------------- MODULE Spec2Model ----------------------------
(***************************************************************************)
(* Model of src/computer_version/cube_detection.py: the pipeline that      *)
(* loads five photographs of a cube, detects the coloured stickers on each *)
(* face, decides which face is the top one, chains the four side faces on  *)
(* their shared colours and composes the net written to result.png.        *)
(*                                                                         *)
(* Python indices are kept 0-based (faces 0..4); a Python list is a TLA+   *)
(* sequence, so Python's xs[k] is xs[k + 1] here.  A Python dict is a      *)
(* function whose DOMAIN is the set of its keys.  An image is modelled by  *)
(* its numpy shape <<rows, columns>>; the contours found in a mask are an  *)
(* input, drawn from bounded sets.                                         *)
(*                                                                         *)
(* The second part models the Home screen of src/gui/home.py: its two      *)
(* indicator clocks, the slots it connects to the frame_received signals   *)
(* of the three cameras, and the handlers on_switch and on_exit.  A Qt     *)
(* signal keeps one connection per connect() call, so the connections of a *)
(* slot are counted.                                                       *)
(***************************************************************************)
EXTENDS Integers, Sequences, FiniteSets, TLC

VARIABLES
    pc,             \* position of the run: the statement executed next
    err,            \* the exception that ended the run ("none" while running)
    files,          \* which of <prefix>1.PNG .. <prefix>5.PNG exist and decode
    photo,          \* shape <<rows, cols>> of each photograph on disk
    img,            \* cut_cube's list img: one entry per image read so far
    shape,          \* shape of each element of img_hsv / img_white
    color_content,  \* _color_detect's list of five colour maps
    color,          \* _color_detect: position in color_dict (1-based)
    index_mask,     \* _color_detect: index of the mask processed next
    contours,       \* contours found in the mask processed last
    printed,        \* number of print('error') calls for the mask processed last
    scene,          \* what the masks may contain (the photographed stickers)
    bottom_index,   \* _type_division: indices of the side squares
    top_index,      \* _type_division: index of the top square
    left_img,       \* _combine_imgs: the strip, as the faces concatenated so far
    connect_color,  \* _combine_imgs: the connector (a list of colour names)
    length_top,     \* _combine_imgs: the offset recorded for the top square
    round,          \* _combine_imgs: value of i for the next outer iteration
    result,         \* what _combine_imgs has returned: no net, or one
    written,        \* whether cv2.imwrite('result.png', ...) has run
    hardware_readings_clock,    \* Home: whether this QTimer is running
    connection_readings_clock,  \* Home: whether this QTimer is running
    connection_clock,   \* manager.references.connection_clock is running
    bar,                \* manager.bar is visible
    line_break,         \* manager.line_break is visible
    frame_received,     \* per camera: connections of Home's update function
    camera_labels,      \* per camera: the frame shown in Home's label
    hardware,           \* text of the hardware indicators
    connections,        \* text of the connection indicators
    calls,              \* the handlers of Home called so far, in order
    home_err            \* the exception a handler of Home raised last

pipeVars    == <<pc, err, files, photo, img, shape, written>>
detectVars  == <<color_content, color, index_mask, contours, printed, scene>>
resolveVars == <<bottom_index, top_index, left_img, connect_color, length_top,
                 round, result>>
homeVars    == <<hardware_readings_clock, connection_readings_clock,
                 connection_clock, bar, line_break, frame_received,
                 camera_labels, hardware, connections, calls, home_err>>
cubeVars    == <<pipeVars, detectVars, resolveVars>>
vars == <<cubeVars, homeVars>>

-----------------------------------------------------------------------------
(* Program constants *)

image_height == 300

\* the keys of color_dict, in the order the dict literal lists them
color_dict == <<"white", "yellow", "green", "blue", "purple",
                "orange", "red", "pink", "light_blue">>

ColorNames == {color_dict[n] : n \in 1..Len(color_dict)}

\* the number of images every loop of the module runs over: range(5)
NumImages == 5

Faces == 0..(NumImages - 1)

\* the area a contour must exceed to be looked at: `if area > 100`
MinArea == 100

\* the four values _color_detect stores for a colour
PosTop    == 0
PosRight  == 1
PosBottom == 2
PosLeft   == 3

Positions == {PosTop, PosRight, PosBottom, PosLeft}

-----------------------------------------------------------------------------
(* Python dicts *)

EmptyDict == <<>>

\* dictionary[key] = value
DictSet(dictionary, key, value) == (key :> value) @@ dictionary

\* len(dictionary)
DictLen(dictionary) == Cardinality(DOMAIN dictionary)

\* _get_key: the keys holding `value`, in the dict's insertion order.  Every
\* colour map is filled by _color_detect, which walks color_dict in order, so
\* insertion order is the order of color_dict.
get_key(dictionary, value) ==
    SelectSeq(color_dict,
              LAMBDA l : l \in DOMAIN dictionary /\ dictionary[l] = value)

-----------------------------------------------------------------------------
(* _color_detect, lines 110-144 *)

\* the value a missing classification has in this model: the `else` branch
\* that prints 'error' stores nothing
NoPosition == -1

\* horizontal = cx / shape[1] and vertical = cy / shape[0] are float quotients
\* of two small integers, compared with the literals 0.2, 0.3, 0.7 and 0.8.
\* Python's division is correctly rounded and so are the literals, so for
\* image sizes far below 2^50 the float comparison n / d < t / 10 is the exact
\* comparison 10 * n < t * d of the rationals.
RatioBelowOrEqual(n, d, tenths) == 10 * n <= tenths * d
RatioBelow(n, d, tenths) == 10 * n < tenths * d
RatioAbove(n, d, tenths) == 10 * n > tenths * d

\* the if / elif chain of lines 133-142, for the centroid (cx, cy) of a
\* contour in a mask of shape shp = <<rows, cols>>
border_position(cx, cy, shp) ==
    LET vBelow(t) == RatioBelow(cy, shp[1], t)
        vAbove(t) == RatioAbove(cy, shp[1], t)
        hBelow(t) == RatioBelow(cx, shp[2], t)
        hAbove(t) == RatioAbove(cx, shp[2], t)
    IN  IF vBelow(2) /\ hBelow(7) /\ hAbove(3) THEN PosTop
        ELSE IF vAbove(8) /\ hBelow(7) /\ hAbove(3) THEN PosBottom
        ELSE IF hAbove(8) /\ vBelow(7) /\ vAbove(3) THEN PosRight
        ELSE IF hBelow(2) /\ vBelow(7) /\ vAbove(3) THEN PosLeft
        ELSE NoPosition

\* A contour is [area, cx, cy]: cv2.contourArea (which is |m00| of
\* cv2.moments) and the truncated centroid int(m10 / m00), int(m01 / m00).
\* A contour of area 0 (a one-pixel speck, a line) has m00 = 0: its centroid
\* does not exist and computing it raises ZeroDivisionError.
Contour(a, pt) == [area |-> a, cx |-> pt[1], cy |-> pt[2]]

\* the test of line 132 left out: every colour gets an entry
classified_all(col) == TRUE

\* `if color != 'white'` (line 132): whether the colour named col gets an
\* entry in the colour maps
classified(col) == col # "white"

\* `cnt = contours[0]`: the contour whose moments are taken while contour k
\* is looked at
cnt_index(k) == 1

\* the loop `for k in range(len(contours))` of lines 123-142 from contour k
\* on, for the colour named col and the colour map d of the mask's face:
\* the map it leaves, the number of 'error' lines printed, and whether
\* ZeroDivisionError was raised
RECURSIVE contour_loop(_, _, _, _, _)
contour_loop(d, cs, k, col, shp) ==
    IF k > Len(cs) THEN [dict |-> d, printed |-> 0, raised |-> FALSE]
    ELSE IF cs[k].area > MinArea
    THEN LET cnt == cs[cnt_index(k)] IN
         IF cnt.area = 0
         THEN [dict |-> d, printed |-> 0, raised |-> TRUE]
         ELSE LET pos  == border_position(cnt.cx, cnt.cy, shp)
                  d2   == IF classified(col) /\ pos # NoPosition
                          THEN DictSet(d, col, pos) ELSE d
                  p    == IF classified(col) /\ pos = NoPosition THEN 1 ELSE 0
                  rest == contour_loop(d2, cs, k + 1, col, shp)
              IN  [dict |-> rest.dict, printed |-> rest.printed + p,
                   raised |-> rest.raised]
    ELSE contour_loop(d, cs, k + 1, col, shp)

(* What cv2.findContours may return for a mask.  scene[face][colour] says   *)
(* what the photograph shows in that colour:                                *)
(*   "blank"  nothing;                                                      *)
(*   "T", "R", "B", "L", "C"  one sticker at the top, right, bottom or left *)
(*            border or in the centre;                                      *)
(*   "grid"   one sticker whose centroid is any pixel of the image;         *)
(*   "free"   any list of at most MaxContours contours, each a speck, a     *)
(*            blob of exactly MinArea or a larger one, at the top border or *)
(*            in the centre.                                                *)

\* the longest list of contours a "free" mask holds
MaxContours == 2

PointAt(tag, shp) ==
    CASE tag = "T" -> <<shp[2] \div 2, shp[1] \div 10>>
      [] tag = "R" -> <<(9 * shp[2]) \div 10, shp[1] \div 2>>
      [] tag = "B" -> <<shp[2] \div 2, (9 * shp[1]) \div 10>>
      [] tag = "L" -> <<shp[2] \div 10, shp[1] \div 2>>
      [] tag = "C" -> <<shp[2] \div 2, shp[1] \div 2>>

StickerTags == {"T", "R", "B", "L", "C"}

BigArea == 4 * MinArea

FreeBlobs(shp) ==
    {Contour(0, <<0, 0>>)} \cup
    {Contour(a, PointAt(t, shp)) : a \in {MinArea, MinArea + 1},
                                   t \in {"T", "C"}}

SeqsUpTo(S, n) == UNION {[1..m -> S] : m \in 0..n}

MaskContours(tag, shp) ==
    CASE tag = "blank" -> {<<>>}
      [] tag \in StickerTags -> {<<Contour(BigArea, PointAt(tag, shp))>>}
      [] tag = "grid" ->
            {<<Contour(BigArea, <<x, y>>)>> :
                x \in 0..(shp[2] - 1), y \in 0..(shp[1] - 1)}
      [] tag = "free" -> SeqsUpTo(FreeBlobs(shp), MaxContours)

\* one pass of the loop `for mask in masks` (lines 120-143) for the current
\* colour, on the mask whose contours are cs, and the step to the next mask,
\* the next colour or the return
DetectMask(cs) ==
    /\ pc = "detect"
    /\ LET r == contour_loop(color_content[index_mask], cs, 1,
                             color_dict[color], shape[index_mask])
       IN  /\ contours' = cs
           /\ IF r.raised
              THEN /\ pc' = "crashed"
                   /\ err' = "ZeroDivisionError"
                   /\ UNCHANGED <<color_content, color, index_mask, printed>>
              ELSE /\ color_content' =
                         [color_content EXCEPT ![index_mask] = r.dict]
                   /\ printed' = r.printed
                   /\ index_mask' = (index_mask + 1) % NumImages
                   /\ color' = IF index_mask + 1 = NumImages
                               THEN color + 1 ELSE color
                   /\ pc' = IF color' > Len(color_dict)
                            THEN "resize" ELSE "detect"
                   /\ err' = err
    /\ UNCHANGED <<files, photo, img, shape, written, scene>>
    /\ UNCHANGED resolveVars
    /\ UNCHANGED homeVars

color_detect ==
    /\ pc = "detect"
    /\ \E cs \in MaskContours(scene[index_mask][color_dict[color]],
                              shape[index_mask]) : DetectMask(cs)

\* the face and the colour of the mask processed last
LastFace  == IF pc = "crashed" THEN index_mask
             ELSE (index_mask + NumImages - 1) % NumImages
LastColor == IF pc = "crashed" \/ index_mask # 0
             THEN color_dict[color] ELSE color_dict[color - 1]
MaskDone  == pc = "crashed" \/ index_mask # 0 \/ color > 1

-----------------------------------------------------------------------------
(* cut_cube, lines 163-176: reading, cutting and resizing the images *)

\* what cv2.imread returns for a file that is missing or does not decode
NoneImage == <<>>

\* the loop of lines 167-169 with a conversion that lets None through
read_image_unchecked ==
    /\ pc = "load"
    /\ LET i == Len(img) IN
       /\ img' = Append(img, IF i \in files THEN photo[i] ELSE NoneImage)
       /\ shape' = [shape EXCEPT ![i] = photo[i]]
       /\ pc' = IF i + 1 = NumImages THEN "cut" ELSE "load"
    /\ UNCHANGED <<err, files, photo, written>>
    /\ UNCHANGED detectVars
    /\ UNCHANGED resolveVars
    /\ UNCHANGED homeVars

\* one pass of the loop of lines 167-169: cv2.imread, then cv2.cvtColor, which
\* raises cv2.error when handed None
read_image ==
    /\ pc = "load"
    /\ LET i == Len(img) IN
       IF i \in files
       THEN /\ img' = Append(img, photo[i])
            /\ shape' = [shape EXCEPT ![i] = photo[i]]
            /\ pc' = IF i + 1 = NumImages THEN "cut" ELSE "load"
            /\ err' = err
       ELSE /\ img' = Append(img, NoneImage)
            /\ pc' = "crashed"
            /\ err' = "cv2.error"
            /\ shape' = shape
    /\ UNCHANGED <<files, photo, written>>
    /\ UNCHANGED detectVars
    /\ UNCHANGED resolveVars
    /\ UNCHANGED homeVars

\* _cut_imgs (lines 32-42, called at line 172) keeps the pixels of the white
\* mask; the images keep their shapes.  _color_detect then starts (116-119).
cut_imgs ==
    /\ pc = "cut"
    /\ pc' = "detect"
    /\ color_content' = [f \in Faces |-> EmptyDict]
    /\ color' = 1
    /\ index_mask' = 0
    /\ UNCHANGED <<err, files, photo, img, shape, written>>
    /\ UNCHANGED <<contours, printed, scene>>
    /\ UNCHANGED resolveVars
    /\ UNCHANGED homeVars

\* width = int(img.shape[1] * image_height / img.shape[0])
resized_width(shp) == (shp[2] * image_height) \div shp[1]

\* _resize_imgs (lines 45-56, called at line 176); cv2.resize raises cv2.error
\* for an empty destination size
resize_imgs ==
    /\ pc = "resize"
    /\ IF \E f \in Faces : resized_width(shape[f]) = 0
       THEN /\ pc' = "crashed"
            /\ err' = "cv2.error"
            /\ shape' = shape
       ELSE /\ pc' = "divide"
            /\ err' = err
            /\ shape' = [f \in Faces |->
                            <<image_height, resized_width(shape[f])>>]
    /\ UNCHANGED <<files, photo, img, written>>
    /\ UNCHANGED detectVars
    /\ UNCHANGED resolveVars
    /\ UNCHANGED homeVars

-----------------------------------------------------------------------------
(* _type_division, lines 59-74 *)

\* the loop of lines 68-73 from the face `index` on
RECURSIVE division_loop(_, _, _, _)
division_loop(dict_color_map, index, bottom, top) ==
    IF index = NumImages THEN [bottom_index |-> bottom, top_index |-> top]
    ELSE IF DictLen(dict_color_map[index]) = 4
         THEN division_loop(dict_color_map, index + 1, bottom, index)
         ELSE division_loop(dict_color_map, index + 1,
                            Append(bottom, index), top)

type_division_of(dict_color_map) == division_loop(dict_color_map, 0, <<>>, 0)

type_division ==
    /\ pc = "divide"
    /\ LET r == type_division_of(color_content)
       IN  /\ bottom_index' = r.bottom_index
           /\ top_index' = r.top_index
    /\ pc' = "combine"
    /\ UNCHANGED <<err, files, photo, img, shape, written>>
    /\ UNCHANGED detectVars
    /\ UNCHANGED <<left_img, connect_color, length_top, round, result>>
    /\ UNCHANGED homeVars

-----------------------------------------------------------------------------
(* _combine_imgs, lines 77-107 *)

\* the strip left_img is the list of the faces concatenated so far (axis=1):
\* its rows are those of its images, its columns the sum of theirs
RECURSIVE StripCols(_)
StripCols(strip) ==
    IF strip = <<>> THEN 0
    ELSE shape[Head(strip)][2] + StripCols(Tail(strip))

StripRows(strip) == shape[strip[1]][1]

\* lines 86-88; bottom_index[0] raises IndexError on an empty list
combine_seed ==
    /\ pc = "combine"
    /\ IF Len(bottom_index) = 0
       THEN /\ pc' = "crashed"
            /\ err' = "IndexError"
            /\ UNCHANGED <<left_img, connect_color, length_top, round>>
       ELSE /\ left_img' = <<bottom_index[1]>>
            /\ length_top' = 0
            /\ connect_color' = get_key(color_content[bottom_index[1]], PosRight)
            /\ round' = 0
            /\ pc' = "chain"
            /\ err' = err
    /\ UNCHANGED <<files, photo, img, shape, written>>
    /\ UNCHANGED detectVars
    /\ UNCHANGED <<bottom_index, top_index, result>>
    /\ UNCHANGED homeVars

\* the loops written range(2): one pass short
ChainRangeShort == 3 - 1

\* the number of passes of each of the two loops of lines 89-90: range(3)
ChainRange == 3

\* the offset line 96 records: left_img.shape[0] - img.shape[0], taken after
\* the face was concatenated
top_offset(strip, face) == StripRows(strip) - shape[face][1]

\* the loop `for k in range(3)` of lines 90-96 from k on: the strip, the
\* connector and the offset it leaves, and whether bottom_index[img_index]
\* raised IndexError
RECURSIVE chain_scan(_, _, _, _)
chain_scan(strip, connect, length, k) ==
    IF k = ChainRange
    THEN [left_img |-> strip, connect_color |-> connect, length_top |-> length,
          raised |-> FALSE]
    ELSE LET img_index == k + 1 IN
         IF img_index >= Len(bottom_index)
         THEN [left_img |-> strip, connect_color |-> connect,
               length_top |-> length, raised |-> TRUE]
         ELSE LET face == bottom_index[img_index + 1] IN
              IF connect = get_key(color_content[face], PosLeft)
              THEN LET strip2 == Append(strip, face) IN
                   chain_scan(strip2,
                              get_key(color_content[face], PosRight),
                              IF get_key(color_content[face], PosTop)
                                 = get_key(color_content[top_index], PosBottom)
                              THEN top_offset(strip2, face) ELSE length,
                              k + 1)
              ELSE chain_scan(strip, connect, length, k + 1)

\* one pass of the loop `for i in range(3)` of line 89
chain_round ==
    /\ pc = "chain"
    /\ round < ChainRange
    /\ LET r == chain_scan(left_img, connect_color, length_top, 0) IN
       IF r.raised
       THEN /\ pc' = "crashed"
            /\ err' = "IndexError"
            /\ UNCHANGED <<left_img, connect_color, length_top, round>>
       ELSE /\ left_img' = r.left_img
            /\ connect_color' = r.connect_color
            /\ length_top' = r.length_top
            /\ round' = round + 1
            /\ pc' = pc
            /\ err' = err
    /\ UNCHANGED <<files, photo, img, shape, written>>
    /\ UNCHANGED detectVars
    /\ UNCHANGED <<bottom_index, top_index, result>>
    /\ UNCHANGED homeVars

\* the length of the slice lo:hi of an axis of n elements
SliceLen(lo, hi, n) ==
    LET a == IF lo < n THEN lo ELSE n
        b == IF hi < n THEN hi ELSE n
    IN  IF b > a THEN b - a ELSE 0

\* numpy assigns an array to a slice when each axis has the slice's length
\* or length 1
Assignable(len, slice) == len = slice \/ len = 1

\* lines 98-107: the canvas above the strip, and the top image assigned to
\* result[length_top:width_top, image_height:height_top]; numpy raises
\* ValueError when the shapes do not fit
composite ==
    /\ pc = "chain"
    /\ round = ChainRange
    /\ LET top_img    == shape[top_index]
           width_top  == top_img[1] + length_top
           height_top == top_img[2] + image_height
           rows       == 2 * StripRows(left_img)
           cols       == StripCols(left_img)
       IN  IF /\ Assignable(top_img[1], SliceLen(length_top, width_top, rows))
              /\ Assignable(top_img[2], SliceLen(image_height, height_top, cols))
           THEN /\ result' = <<[strip |-> left_img, top |-> top_index,
                                row_offset |-> length_top,
                                col_offset |-> image_height]>>
                /\ pc' = "write"
                /\ err' = err
           ELSE /\ result' = result
                /\ pc' = "crashed"
                /\ err' = "ValueError"
    /\ UNCHANGED <<files, photo, img, shape, written>>
    /\ UNCHANGED detectVars
    /\ UNCHANGED <<bottom_index, top_index, left_img, connect_color,
                   length_top, round>>
    /\ UNCHANGED homeVars

\* lines 182-186: cut_cube returns the net and the module writes result.png
imwrite ==
    /\ pc = "write"
    /\ written' = TRUE
    /\ pc' = "done"
    /\ UNCHANGED <<err, files, photo, img, shape>>
    /\ UNCHANGED detectVars
    /\ UNCHANGED resolveVars
    /\ UNCHANGED homeVars

-----------------------------------------------------------------------------
(* The photographed cube: the scenes the runs are checked on *)

NonWhite == ColorNames \ {"white"}

\* the colours shared by neighbouring side faces, in the order of the faces
\* around the cube, and the colours around the top face
RingColors == <<"yellow", "green", "blue", "purple">>
TopColors  == [orange |-> "T", red |-> "R", pink |-> "B", light_blue |-> "L"]

Slots == 0..(Len(RingColors) - 1)

SlotOrders == {s \in [Slots -> Slots] : \A a, b \in Slots : s[a] = s[b] => a = b}

\* the rank of side face f among the side faces, when face p is the top face
SideRank(f, p) == IF f < p THEN f ELSE f - 1

\* A well-formed cube: face p shows the top face, with a sticker at each
\* border; the side face of rank k is the face at place sigma[k] around the
\* cube, its LEFT sticker shared with the face before it, its RIGHT sticker
\* with the face after it; the face whose LEFT colour is `under` (if any) lies
\* under the top face and has, at its TOP border, the colour of the top face's
\* BOTTOM border.
\* The white body of the cube fills the centre of every photograph.
CubeScene(p, sigma, under) ==
    [f \in Faces |-> [c \in ColorNames |->
        IF c = "white" THEN "C"
        ELSE IF f = p
        THEN (IF c \in DOMAIN TopColors THEN TopColors[c] ELSE "blank")
        ELSE LET j == sigma[SideRank(f, p)] IN
             IF c = RingColors[j + 1] THEN "L"
             ELSE IF c = RingColors[((j + 1) % Len(RingColors)) + 1] THEN "R"
             ELSE IF RingColors[j + 1] = under /\ c = "pink" THEN "T"
             ELSE "blank"]]

\* colour c of face f shows at t instead (or not at all)
TagEdit(sc, f, c, t) == [sc EXCEPT ![f][c] = t]

\* the sticker at border t of face f has colour c instead ("none": is missing)
Recolour(sc, f, t, c) ==
    [sc EXCEPT ![f] = [x \in ColorNames |->
        IF x = c THEN t ELSE IF sc[f][x] = t THEN "blank" ELSE sc[f][x]]]

BorderTags == {"T", "R", "B", "L"}

\* the LEFT colour of the face under the top face, in the scenes that are
\* edited
UnderTop == "green"

RingColorSet == {RingColors[n] : n \in 1..Len(RingColors)}

Identity == [j \in Slots |-> j]

\* sc with at most one sticker changed
OneEdit(sc, edited) ==
    \/ edited = sc
    \/ \E f \in Faces, c \in NonWhite, t \in BorderTags \cup {"blank", "C"} :
          edited = TagEdit(sc, f, c, t)
    \/ \E f \in Faces, t \in BorderTags, c \in NonWhite \cup {"none"} :
          edited = Recolour(sc, f, t, c)

\* the photographs: 600 rows, and a different number of columns each
Photographs == [f \in Faces |-> <<600, 600 + 40 * f>>]

-----------------------------------------------------------------------------
(* The Home screen (src/gui/home.py) *)

\* the three cameras whose frame_received signals Home listens to
Cameras == {"main", "top", "bottom"}

\* what an indicator shows before its first reading
DEFAULT_READING == "_"

\* a camera label that has not been given a frame yet
NoFrame == "none"

\* the frames a camera may emit
Frames == {"frame_a", "frame_b"}

\* what get_hardware_info may report, and the states of the connection
HardwareInfos == {"idle", "busy"}
Statuses      == {"CONNECTED", "DISCONNECTED"}

\* the calls of on_switch and on_exit followed
MaxCalls == 4

\* Home() has been constructed: the clocks exist and are not started, the
\* update functions exist and are connected to nothing, the indicators show
\* the default reading; the loading screen has hidden the menu bar and has
\* not started the connection check clock
HomeInit ==
    /\ hardware_readings_clock = FALSE
    /\ connection_readings_clock = FALSE
    /\ connection_clock = FALSE
    /\ bar = FALSE
    /\ line_break = FALSE
    /\ frame_received = [c \in Cameras |-> 0]
    /\ camera_labels = [c \in Cameras |-> NoFrame]
    /\ hardware = DEFAULT_READING
    /\ connections = DEFAULT_READING
    /\ calls = <<>>
    /\ home_err = "none"

\* on_switch: show the menu bar, start the connection check clock, update
\* both groups of indicators, start both indicator clocks, and connect each
\* update function to its camera (one more connection each)
on_switch ==
    /\ Len(calls) < MaxCalls
    /\ calls' = Append(calls, "on_switch")
    /\ bar' = TRUE
    /\ line_break' = TRUE
    /\ connection_clock' = TRUE
    /\ hardware' \in HardwareInfos
    /\ connections' \in Statuses
    /\ hardware_readings_clock' = TRUE
    /\ connection_readings_clock' = TRUE
    /\ frame_received' = [c \in Cameras |-> frame_received[c] + 1]
    /\ UNCHANGED <<camera_labels, home_err>>
    /\ UNCHANGED cubeVars

\* the disconnect calls of on_exit, in their order, with the last one left out
ExitSlotsShort == <<"main", "top">>

\* the disconnect calls of on_exit, in their order
ExitSlots == <<"main", "top", "bottom">>

\* the disconnect calls from the k-th on: disconnect() removes one connection
\* of the slot, and raises RuntimeError when the slot has none, which ends
\* the handler
RECURSIVE disconnect_slots(_, _)
disconnect_slots(conn, k) ==
    IF k > Len(ExitSlots)
    THEN [frame_received |-> conn, raised |-> FALSE]
    ELSE IF conn[ExitSlots[k]] = 0
         THEN [frame_received |-> conn, raised |-> TRUE]
         ELSE disconnect_slots([conn EXCEPT ![ExitSlots[k]] = @ - 1], k + 1)

\* on_exit: stop both indicator clocks, then disconnect the update functions
on_exit ==
    /\ Len(calls) < MaxCalls
    /\ calls' = Append(calls, "on_exit")
    /\ hardware_readings_clock' = FALSE
    /\ connection_readings_clock' = FALSE
    /\ LET r == disconnect_slots(frame_received, 1) IN
       /\ frame_received' = r.frame_received
       /\ home_err' = IF r.raised THEN "RuntimeError" ELSE home_err
    /\ UNCHANGED <<connection_clock, bar, line_break, camera_labels,
                   hardware, connections>>
    /\ UNCHANGED cubeVars

\* the timeout of the hardware readings clock runs _HardwareIndicators.update
hardware_update ==
    /\ hardware_readings_clock
    /\ hardware' \in HardwareInfos
    /\ UNCHANGED <<hardware_readings_clock, connection_readings_clock,
                   connection_clock, bar, line_break, frame_received,
                   camera_labels, connections, calls, home_err>>
    /\ UNCHANGED cubeVars

\* the timeout of the connection readings clock runs
\* _ConnectionIndicators.update
connections_update ==
    /\ connection_readings_clock
    /\ connections' \in Statuses
    /\ UNCHANGED <<hardware_readings_clock, connection_readings_clock,
                   connection_clock, bar, line_break, frame_received,
                   camera_labels, hardware, calls, home_err>>
    /\ UNCHANGED cubeVars

\* a camera emits a frame while Home's update function is connected to it:
\* the function shows the frame in the label of that camera
update_camera ==
    /\ \E c \in Cameras, f \in Frames :
          /\ frame_received[c] > 0
          /\ camera_labels' = [camera_labels EXCEPT ![c] = f]
    /\ UNCHANGED <<hardware_readings_clock, connection_readings_clock,
                   connection_clock, bar, line_break, frame_received,
                   hardware, connections, calls, home_err>>
    /\ UNCHANGED cubeVars

-----------------------------------------------------------------------------
(* States before and between the stages *)

ResolveIdle ==
    /\ bottom_index = <<>>
    /\ top_index = 0
    /\ left_img = <<>>
    /\ connect_color = <<>>
    /\ length_top = 0
    /\ round = 0
    /\ result = <<>>

DetectIdle ==
    /\ color_content = [f \in Faces |-> EmptyDict]
    /\ color = 1
    /\ index_mask = 0
    /\ contours = <<>>
    /\ printed = 0

\* the state in which _color_detect starts on the photographs ph
DetectStart(ph) ==
    /\ pc = "detect"
    /\ err = "none"
    /\ files = Faces
    /\ photo = ph
    /\ img = [f \in 1..NumImages |-> ph[f - 1]]
    /\ shape = ph
    /\ written = FALSE
    /\ DetectIdle
    /\ ResolveIdle
    /\ HomeInit

\* the shapes of the photographs _color_detect is checked on
PhotoShapes == {<<300, 400>>}

\* _color_detect on photographs of which one shows stickers, in any colours
InitDetect ==
    /\ \E shp \in PhotoShapes : DetectStart([f \in Faces |-> shp])
    /\ \E f0 \in Faces :
          scene = [f \in Faces |-> [c \in ColorNames |->
                      IF f = f0 THEN "free" ELSE "blank"]]

SpecDetect == InitDetect /\ [][color_detect]_vars

\* _color_detect on small photographs of which one shows one sticker of one
\* colour, anywhere
SmallShapes == {<<20, 20>>, <<20, 30>>, <<30, 20>>}

InitClassify ==
    /\ \E shp \in SmallShapes : DetectStart([f \in Faces |-> shp])
    /\ \E f0 \in Faces, c0 \in ColorNames :
          scene = [f \in Faces |-> [c \in ColorNames |->
                      IF f = f0 /\ c = c0 THEN "grid" ELSE "blank"]]

SpecClassify == InitClassify /\ [][color_detect]_vars

\* what _color_detect returns for a scene of single stickers
TagPosition == [T |-> PosTop, R |-> PosRight, B |-> PosBottom, L |-> PosLeft]

MapsOf(sc) ==
    [f \in Faces |->
        [c \in {x \in NonWhite : sc[f][x] \in BorderTags} |->
            TagPosition[sc[f][c]]]]

LastName == color_dict[Len(color_dict)]

\* the state in which _type_division starts: _color_detect has returned the
\* colour maps of the scene sc and _resize_imgs has resized the images
ResolveStart(sc, ph) ==
    /\ pc = "divide"
    /\ err = "none"
    /\ files = Faces
    /\ photo = ph
    /\ img = [f \in 1..NumImages |-> ph[f - 1]]
    /\ shape = [f \in Faces |-> <<image_height, resized_width(ph[f])>>]
    /\ written = FALSE
    /\ scene = sc
    /\ color_content = MapsOf(sc)
    /\ color = Len(color_dict) + 1
    /\ index_mask = 0
    /\ contours \in MaskContours(sc[NumImages - 1][LastName],
                                 ph[NumImages - 1])
    /\ printed = IF sc[NumImages - 1][LastName] = "C" THEN 1 ELSE 0
    /\ ResolveIdle
    /\ HomeInit

\* _type_division and _combine_imgs on every cube, in every order of the
\* photographs, and on every such cube with one sticker changed
InitResolve ==
    \E p \in Faces, s \in SlotOrders :
        \/ \E under \in RingColorSet \cup {"none"} :
              ResolveStart(CubeScene(p, s, under), Photographs)
        \/ /\ OneEdit(CubeScene(p, s, UnderTop), scene)
           /\ ResolveStart(scene, Photographs)

ResolveNext == type_division \/ combine_seed \/ chain_round \/ composite

SpecResolve == InitResolve /\ [][ResolveNext]_vars

\* The module starts: cut_cube('./color_cube/') has read nothing yet.  The
\* scenes are every order of the photographs of a cube, and one order with
\* one sticker changed.
Init ==
    /\ pc = "load"
    /\ err = "none"
    /\ files \in SUBSET Faces
    /\ photo = Photographs
    /\ img = <<>>
    /\ shape = [f \in Faces |-> NoneImage]
    /\ written = FALSE
    /\ \/ \E p \in Faces, s \in SlotOrders : scene = CubeScene(p, s, UnderTop)
       \/ OneEdit(CubeScene(2, Identity, UnderTop), scene)
    /\ DetectIdle
    /\ ResolveIdle
    /\ HomeInit

Next ==
    \/ read_image
    \/ cut_imgs
    \/ color_detect
    \/ resize_imgs
    \/ type_division
    \/ combine_seed
    \/ chain_round
    \/ composite
    \/ imwrite

Spec == Init /\ [][Next]_vars

\* _color_detect and _resize_imgs lead to the states SpecResolve starts in
ReachesResolveStart ==
    pc = "divide" => ResolveStart(scene, photo)

\* The Home screen after its construction, with the cube pipeline not run;
\* the screen manager may call on_switch and on_exit in any order
InitHome ==
    /\ pc = "load"
    /\ err = "none"
    /\ files = Faces
    /\ photo = Photographs
    /\ img = <<>>
    /\ shape = [f \in Faces |-> NoneImage]
    /\ written = FALSE
    /\ \E p \in Faces : scene = CubeScene(p, Identity, UnderTop)
    /\ DetectIdle
    /\ ResolveIdle
    /\ HomeInit

HomeNext ==
    \/ on_switch
    \/ on_exit
    \/ hardware_update
    \/ connections_update
    \/ update_camera

SpecHome == InitHome /\ [][HomeNext]_vars

-----------------------------------------------------------------------------
(* Properties *)

\* the colours a face shows at a border position
ColoursAt(f, pos) ==
    {c \in DOMAIN color_content[f] : color_content[f][c] = pos}

\* the faces whose colour map has four entries, and the others
TopFaces  == {f \in Faces : DictLen(color_content[f]) = 4}
SideFaces == Faces \ TopFaces

ChainDone == round = ChainRange

\* one top face, and four side faces that each show one RIGHT and one LEFT
\* colour, the four RIGHT colours distinct, each the LEFT colour of exactly
\* one other side face, the four faces forming one cycle (not two pairs)
SingleCycle ==
    /\ Cardinality(TopFaces) = 1
    /\ \A f \in SideFaces :
          /\ Cardinality(ColoursAt(f, PosRight)) = 1
          /\ Cardinality(ColoursAt(f, PosLeft)) = 1
          /\ Cardinality({g \in SideFaces \ {f} :
                ColoursAt(g, PosLeft) = ColoursAt(f, PosRight)}) = 1
    /\ \A f, g \in SideFaces :
          f # g =>
             /\ ColoursAt(f, PosRight) # ColoursAt(g, PosRight)
             /\ ~ (/\ ColoursAt(f, PosRight) = ColoursAt(g, PosLeft)
                   /\ ColoursAt(g, PosRight) = ColoursAt(f, PosLeft))

\* C1: when one face is the top face and the RIGHT and LEFT colours of the
\* four side faces form a single cycle of four distinct colours, the chaining
\* raises nothing and ends with a strip of exactly the four side faces: the
\* first side face in input order, then the others, each with the LEFT colour
\* that is the RIGHT colour of the face before it, in whatever order the
\* other three were given.
C1_ChainOrder ==
    SingleCycle =>
       /\ err # "IndexError"
       /\ ChainDone =>
             /\ Len(left_img) = 4
             /\ \A f \in SideFaces : left_img[1] <= f
             /\ {left_img[j] : j \in 1..4} = SideFaces
             /\ \A j \in 2..4 :
                   ColoursAt(left_img[j], PosLeft)
                      = ColoursAt(left_img[j - 1], PosRight)

\* a cycle chained in an order that is not the input order
C1_Witness ==
    /\ SingleCycle
    /\ ChainDone
    /\ Len(left_img) = 4
    /\ left_img[2] > left_img[3]
    /\ left_img[3] > left_img[4]

\* face f shows, at its TOP border, the colour of the top face's BOTTOM border
UnderTopFace(f) ==
    /\ ColoursAt(f, PosTop) # {}
    /\ ColoursAt(f, PosTop) = ColoursAt(top_index, PosBottom)

\* the columns of the strip to the left of its j-th face
WidthBefore(j) == StripCols(SubSeq(left_img, 1, j - 1))

\* C2: on a well-formed cube, when the chaining has ended and exactly one of
\* the faces it appended shows the top face's BOTTOM colour at its TOP
\* border, the offset recorded for the top face is the width of the strip to
\* the left of that face, and the net has the top face at that column.
C2_TopOffset ==
    (SingleCycle /\ ChainDone) =>
       \A j \in 2..Len(left_img) :
          (/\ UnderTopFace(left_img[j])
           /\ \A i \in 2..Len(left_img) : UnderTopFace(left_img[i]) => i = j)
          => /\ length_top = WidthBefore(j)
             /\ result # <<>> => result[1].col_offset = WidthBefore(j)

\* C3: a net is assembled only when exactly one face qualifies as the top
\* face and the other four are side faces; with no such face, or more than
\* one, the run ends in a failure.
C3_OneTopOrFailure ==
    /\ result # <<>> => Cardinality(TopFaces) = 1
    /\ (pc = "write" \/ pc = "done") => Cardinality(TopFaces) = 1

\* C4: no net built from a strip of fewer than four side faces is returned,
\* and a chaining that ends with fewer than four faces in the strip ends the
\* run in a failure.
C4_NoPartialStrip ==
    /\ result # <<>> => Len(result[1].strip) >= 4
    /\ (pc = "write" \/ pc = "done") => Len(left_img) >= 4

\* a face shows a colour at each of the four border positions
AllPositions(f) == \A pos \in Positions : ColoursAt(f, pos) # {}

Divided == pc # "divide" /\ pc # "load" /\ pc # "cut" /\ pc # "detect"
              /\ pc # "resize"

\* C7: once the roles are divided, the face selected as the top face shows a
\* colour at each of the four border positions and every side face lacks a
\* colour at one position or more.
C7_TopHasAllPositions ==
    Divided =>
       /\ AllPositions(top_index)
       /\ \A k \in 1..Len(bottom_index) : ~ AllPositions(bottom_index[k])

\* the position the colour map of the mask processed last holds for its
\* colour
LastEntry ==
    IF LastColor \in DOMAIN color_content[LastFace]
    THEN color_content[LastFace][LastColor] ELSE NoPosition

BigBlobs == {k \in 1..Len(contours) : contours[k].area > MinArea}

ZoneOf(k) == border_position(contours[k].cx, contours[k].cy, shape[LastFace])

\* C5: the entry a mask leaves in the colour map of its face is the border
\* position of the centroid of one of its blobs of more than 100 px^2.
C5_EntriesFromBigBlobs ==
    (MaskDone /\ pc # "crashed" /\ LastEntry # NoPosition) =>
       \E k \in BigBlobs : ZoneOf(k) = LastEntry

\* C9: a mask whose blobs of more than 100 px^2 all have their centroid in
\* none of the four border zones is reported, leaves no entry for its colour
\* and raises nothing.
C9_CentreBlobDiscarded ==
    (/\ MaskDone
     /\ LastColor # "white"
     /\ BigBlobs # {}
     /\ \A k \in BigBlobs : ZoneOf(k) = NoPosition)
    => /\ pc # "crashed"
       /\ LastEntry = NoPosition
       /\ printed >= 1

\* C8, as claimed: every colour map has at most four entries.
C8_AtMostFour == \A f \in Faces : DictLen(color_content[f]) <= 4

\* C8, amended: every colour map has at most eight entries, one for each
\* colour but white at most, each a border position.
C8_AtMostOnePerColour ==
    \A f \in Faces :
       /\ DictLen(color_content[f]) <= 8
       /\ "white" \notin DOMAIN color_content[f]
       /\ \A c \in DOMAIN color_content[f] : color_content[f][c] \in Positions

\* a face with an entry for each of the eight colours
C8_Witness ==
    /\ pc = "resize"
    /\ \E f \in Faces : DictLen(color_content[f]) = 8

\* the mask processed last held one blob of more than 100 px^2, of a colour
\* that is classified
OneBlobDone ==
    /\ MaskDone
    /\ pc # "crashed"
    /\ Len(contours) = 1
    /\ BigBlobs = {1}
    /\ LastColor # "white"

\* C6: with h = cx / width and v = cy / height, a blob is classified TOP iff
\* v < 0.2 and 0.3 < h < 0.7, BOTTOM iff v > 0.8 and 0.3 < h < 0.7, RIGHT iff
\* h > 0.8 and 0.3 < v < 0.7, LEFT iff h < 0.2 and 0.3 < v < 0.7; all the
\* inequalities are strict, so a centroid exactly on a threshold is outside
\* the zone that threshold bounds.
C6_StrictZones ==
    OneBlobDone =>
       LET cx     == contours[1].cx
           cy     == contours[1].cy
           height == shape[LastFace][1]
           width  == shape[LastFace][2]
           hMid   == 3 * width < 10 * cx /\ 10 * cx < 7 * width
           vMid   == 3 * height < 10 * cy /\ 10 * cy < 7 * height
       IN  /\ LastEntry = PosTop    <=> (5 * cy < height /\ hMid)
           /\ LastEntry = PosBottom <=> (5 * cy > 4 * height /\ hMid)
           /\ LastEntry = PosRight  <=> (5 * cx > 4 * width /\ vMid)
           /\ LastEntry = PosLeft   <=> (5 * cx < width /\ vMid)

\* a centroid with v exactly 0.2 and h = 0.5 is given no position
C6_Witness ==
    /\ OneBlobDone
    /\ 5 * contours[1].cy = shape[LastFace][1]
    /\ 2 * contours[1].cx = shape[LastFace][2]
    /\ LastEntry = NoPosition
    /\ printed = 1

\* C10: when one of the five photographs is missing or does not decode, the
\* run stops with cv2.error at the first such photograph: no later stage is
\* entered, no net is produced and result.png is never written.
C10_NoOutputOnMissing ==
    files # Faces =>
       /\ ~ written
       /\ result = <<>>
       /\ pc = "load" \/ (pc = "crashed" /\ err = "cv2.error")
       /\ \A i \in Faces \ files : Len(img) <= i + 1

\* the run stopped at the fifth photograph, the only one missing
C10_Witness ==
    /\ files = Faces \ {NumImages - 1}
    /\ pc = "crashed"
    /\ Len(img) = NumImages

\* no face is in the strip twice
NoFaceTwice ==
    \A i, j \in 1..Len(left_img) : left_img[i] = left_img[j] => i = j

\* C11: every round of the chaining appends at most one face, so that after
\* `round` rounds the strip holds the seed and at most `round` more faces;
\* the strip never holds a side face twice and never more than four faces.
C11_OneFacePerRound ==
    /\ Len(left_img) <= 1 + round
    /\ NoFaceTwice
    /\ Len(left_img) <= 4

\* on_switch and on_exit have alternated so far, starting with on_switch
Alternating ==
    \A n \in 1..Len(calls) :
        calls[n] = IF n % 2 = 1 THEN "on_switch" ELSE "on_exit"

\* the handler of Home called last
LastCall == calls[Len(calls)]

\* the Home screen is the active one / has been left
HomeActive == calls # <<>> /\ LastCall = "on_switch"
HomeExited == calls # <<>> /\ LastCall = "on_exit"

\* C12: as long as on_switch and on_exit alternate, starting with on_switch,
\* while the Home screen is active both indicator clocks run and each of the
\* three update functions is connected to its camera exactly once, and after
\* an on_exit both indicator clocks are stopped and no update function is
\* connected.
C12_SwitchExitBalanced ==
    Alternating =>
        /\ HomeActive =>
              /\ hardware_readings_clock
              /\ connection_readings_clock
              /\ \A c \in Cameras : frame_received[c] = 1
        /\ HomeExited =>
              /\ ~hardware_readings_clock
              /\ ~connection_readings_clock
              /\ \A c \in Cameras : frame_received[c] = 0

\* the screen has been switched to, left, and switched to again, and shows a
\* frame of every camera
C12_Witness ==
    /\ Alternating
    /\ HomeActive
    /\ Len(calls) > 2
    /\ \A c \in Cameras : frame_received[c] = 1 /\ camera_labels[c] \in Frames

=============================================================================
